---------------------------- MODULE Spec2Model ----------------------------
(***************************************************************************)
(* Retrieval engine of rag_demo: the chunker (src/backend/cleaner.py), the *)
(* vector index wrapper (src/backend/vectorize.py), the consumers of the   *)
(* rows a query returns (src/cli/query_cli.py, app.py, inspect_vectordb.py,*)
(* explain_retrieval.py) and the answer generator (src/backend/llm.py).    *)
(*                                                                         *)
(* Texts are sequences of one-character strings.  Python positions are     *)
(* 0-based and slices are half open, text[s:e]; the operators below keep   *)
(* the Python positions and translate to 1-based sequences only inside     *)
(* Slice.                                                                  *)
(*                                                                         *)
(* ChunkSpec runs one call of chunk_text, one loop iteration per step, on  *)
(* every text and parameter pair within the bounds.  Spec runs the vector  *)
(* index: create_vector_db / add_documents, one batch per step, and query. *)
(* add_documents calls chunk_text as an operator built from the same       *)
(* definitions the steps of ChunkSpec use.  QuerySpec runs one call of     *)
(* VectorDB.query with its keyword filter on every ranking within the      *)
(* bounds, FilterSpec one consumer of the rows on every list of rows, and  *)
(* AnswerSpec one answer of the CLI or the web UI.                         *)
(***************************************************************************)
EXTENDS Integers, Sequences, FiniteSets, TLC

VARIABLES
    \* ---- one call of chunk_text ----
    text,        \* argument text
    chunk_size,  \* argument chunk_size
    overlap,     \* argument overlap
    start,       \* local start
    chunks,      \* local chunks (the value returned)
    windows,     \* history: the <<start, end>> of every iteration, in order
    pc,          \* "call", "loop" at the while test, "returned" after return;
                 \* "cut" and "cut_done" around the cut of one window
    \* ---- the vector index and one call of add_documents ----
    CHUNK_SIZE,     \* config.py:26 (scaled)
    CHUNK_OVERLAP,  \* config.py:27 (scaled)
    collection,     \* the records of the persisted Chroma collection
    documents,      \* argument of the current or latest add_documents call
    all_chunks,     \* vectorize.py:52
    all_metadatas,  \* vectorize.py:53
    all_ids,        \* vectorize.py:54
    batch_i,        \* loop variable i of vectorize.py:80
    apc,            \* "idle", "batches", "done", "raised", "failed" or "hung"
    results,        \* value returned by the latest query
    before,         \* history: the collection when add_documents was entered
    prior_docs,     \* history: documents of the call that completed last,
                    \* <<>> once the index was changed in another way
    repeat,         \* history: the current call repeats that call
    calls,          \* number of create_vector_db calls so far
    reset_arg,      \* history: argument reset of the current or latest call
    held,           \* history: the collection when create_vector_db was called
    failure,        \* history: where the index failed in the current or
                    \* latest call: "none", "reset" or "batch"
    \* ---- one call of VectorDB.query ----
    ranking,        \* the records of the collection, nearest to the query first
    arg_n_results,  \* argument n_results
    keyword_filter, \* argument keyword_filter, <<>> for None and for ""
    qpc,            \* "unused", "call", "returned" or "raised"
    \* ---- one consumer of the rows a query returned ----
    rows,           \* the rows handed to the consumer, in the order given
    min_similarity, \* the threshold, in hundredths of a percent
    kept,           \* the rows the consumer keeps or lists, in its order
    shown,          \* the similarity the consumer computed for each of them
    consumer,       \* "unused", "none" before the consumer ran, then "cli",
                    \* "table", "web", "inspect" or "explain"
    \* ---- the answer path: one call of generate_answer and the source list ----
    provider,       \* self.provider of the LLMAnswerGenerator
    filtered,       \* filtered_chunks and filtered_metas, as one list of rows
    context_chunks, \* argument context_chunks of generate_answer
    metadata,       \* argument metadata of generate_answer
    llm_outcome,    \* what the provider call did: "ok", "exception", "status"
    context,        \* the entries of the context _format_context built
    answer,         \* the value generate_answer returned
    sources,        \* the numbered source list the user interface shows
    ui,             \* "unused", "none" before the answer, then "cli" or "web"
    \* ---- one session of the query CLI, query_cli.py main ----
    llm,               \* local llm: "None" or the provider of the LLMAnswerGenerator
    answer_mode,       \* local answer_mode
    session_threshold, \* local min_similarity of main, in hundredths of a percent
    db,                \* the record ids of the index the session is connected to
    setup,             \* history: how the LLM setup went: "none", "enabled", "skipped"
                       \* or "failed"
    command,           \* history: the latest line read by the loop, as name and argument
    handled,           \* history: what dealt with it: "none", "branch", "query" or
                       \* "generic", the except clause of the loop
    path,              \* history: what the latest query showed: "none", "empty",
                       \* "answer" or "chunks"
    entered,           \* history: threshold, mode and index when that line was read
    spc,               \* "unused", "setup", "loop" or "exited"
    \* ---- the ids of one call of add_documents, vectorize.py:58-76 ----
    named,     \* the documents of the call, as filename and number of chunks
    submitted, \* all_ids as the loop built it
    ipc,       \* "unused", "call" or "built"
    \* ---- one run of the processing script, process_pdfs.py main ----
    pdf_files,  \* the PDF files of the directory: filename, text, and whether
                \* extract_text_from_pdf returns it or raises
    args_reset, \* args.reset
    loaded,     \* local documents of main, as load_pdfs returned it
    at_start,   \* history: the collection when the run started
    ppc,        \* "unused", "start", "exited" after the early return, "loaded"
                \* or "raised"
    \* ---- the detail prompt of display_results, query_cli.py:78-88 ----
    choice, \* the line typed at the prompt: whether it is all digits, and its
            \* number
    panel,  \* the row the panel shows, <<>> when no panel is shown
    dpc     \* "none" before the prompt was answered, then "typed"

chunkVars == <<text, chunk_size, overlap, start, chunks, windows, pc>>

indexVars == <<CHUNK_SIZE, CHUNK_OVERLAP, collection, documents, all_chunks,
               all_metadatas, all_ids, batch_i, apc, results, before,
               prior_docs, repeat, calls, reset_arg, held, failure>>

queryVars == <<ranking, arg_n_results, keyword_filter, qpc>>

filterVars == <<rows, min_similarity, kept, shown, consumer>>

answerVars == <<provider, filtered, context_chunks, metadata, llm_outcome,
                context, answer, sources, ui>>

sessionVars == <<llm, answer_mode, session_threshold, db, setup, command,
                 handled, path, entered, spc>>

idVars == <<named, submitted, ipc>>

scriptVars == <<pdf_files, args_reset, loaded, at_start, ppc>>

detailVars == <<choice, panel, dpc>>

vars == <<chunkVars, indexVars, queryVars, filterVars, answerVars,
          sessionVars, idVars, scriptVars, detailVars>>

\* what the steps of each part leave alone
exceptChunk == <<indexVars, queryVars, filterVars, answerVars,
                 sessionVars,
                 idVars,
                 scriptVars,
                 detailVars>>
exceptIndex == <<chunkVars, queryVars, filterVars, answerVars,
                 sessionVars,
                 idVars,
                 scriptVars,
                 detailVars>>
exceptQuery == <<chunkVars, CHUNK_SIZE, CHUNK_OVERLAP, collection, documents,
                 all_chunks, all_metadatas, all_ids, batch_i, apc, before,
                 prior_docs, repeat, calls, reset_arg, held, failure,
                 filterVars, answerVars,
                 sessionVars,
                 idVars,
                 scriptVars,
                 detailVars>>
exceptFilter == <<chunkVars, indexVars, queryVars, answerVars,
                  sessionVars,
                  idVars,
                  scriptVars,
                  detailVars>>
exceptAnswer == <<chunkVars, indexVars, queryVars, filterVars,
                  sessionVars,
                  idVars,
                  scriptVars,
                  detailVars>>
exceptSession == <<chunkVars,
                   indexVars,
                   queryVars,
                   filterVars,
                   answerVars,
                   idVars,
                   scriptVars,
                   detailVars>>
exceptId == <<chunkVars,
              indexVars,
              queryVars,
              filterVars,
              answerVars,
              sessionVars,
              scriptVars,
              detailVars>>
exceptScript == <<chunkVars,
                  indexVars,
                  queryVars,
                  filterVars,
                  answerVars,
                  sessionVars,
                  idVars,
                  detailVars>>
exceptDetail == <<chunkVars,
                  indexVars,
                  queryVars,
                  filterVars,
                  answerVars,
                  sessionVars,
                  idVars,
                  scriptVars>>

----------------------------------------------------------------------------
(* Bounds of the model *)

MaxLen == 6

MaxChunkSize == 3

\* more iterations than any terminating call of the bounded model can make
MaxIter == MaxLen + 2

Alphabet == {"a", " ", "."}

Whitespace == {" ", "\n"}

Texts == UNION {[1..n -> Alphabet] : n \in 0..MaxLen}

----------------------------------------------------------------------------
(* Python string primitives *)

Max2(a, b) == IF a >= b THEN a ELSE b

Min2(a, b) == IF a <= b THEN a ELSE b

\* t[s:e] for 0 <= s, e
Slice(t, s, e) == SubSeq(t, s + 1, Min2(e, Len(t)))

\* t.rfind(sub, s, e): the highest position i with s <= i and
\* i + len(sub) <= min(e, len(t)) where sub occurs, or -1
rfind(t, sub, s, e) ==
    LET hi == Min2(e, Len(t))
        hits == {i \in s..(hi - Len(sub)) : Slice(t, i, i + Len(sub)) = sub}
    IN  IF hits = {} THEN -1 ELSE CHOOSE i \in hits : \A j \in hits : j <= i

\* number of leading whitespace characters of t
RECURSIVE LeadWs(_)
LeadWs(t) ==
    IF t # <<>> /\ Head(t) \in Whitespace THEN 1 + LeadWs(Tail(t)) ELSE 0

\* number of trailing whitespace characters of t
RECURSIVE TrailWs(_)
TrailWs(t) ==
    IF t # <<>> /\ t[Len(t)] \in Whitespace
    THEN 1 + TrailWs(SubSeq(t, 1, Len(t) - 1)) ELSE 0

\* a bug strip could have: only the left side is trimmed
lstripOnly(t) == SubSeq(t, LeadWs(t) + 1, Len(t))

\* t.strip()
strip(t) ==
    IF LeadWs(t) = Len(t) THEN <<>>
    ELSE SubSeq(t, LeadWs(t) + 1, Len(t) - TrailWs(t))

----------------------------------------------------------------------------
(* chunk_text, cleaner.py:89-137 *)

\* a bug the cut could have: only '. ' ends a sentence
sentence_end_dot_only(t, s, e) == rfind(t, <<".", " ">>, s, e)

\* cleaner.py:114-118
sentence_end(t, s, e) ==
    Max2(rfind(t, <<".", " ">>, s, e),
         Max2(rfind(t, <<"!", " ">>, s, e), rfind(t, <<"?", " ">>, s, e)))

\* cleaner.py:109-126: the end of the window that starts at s
WindowEnd(t, s, cs) ==
    LET end == s + cs
    IN  IF end < Len(t)
        THEN IF sentence_end(t, s, end) > s
             THEN sentence_end(t, s, end) + 1
             ELSE IF rfind(t, <<" ">>, s, end) > s
                  THEN rfind(t, <<" ">>, s, end)
                  ELSE end
        ELSE end

\* cleaner.py:128: the chunk appended for the window [s, e)
ChunkOf(t, s, e) == strip(Slice(t, s, e))

\* bugs the advance could have: one character too few, one too many
NextStartShort(end, ov) == IF end - ov - 1 <= 0 THEN end ELSE end - ov - 1

NextStartSkip(end, ov) == IF end - ov <= 0 THEN end ELSE end - ov + 1

\* cleaner.py:131-135
NextStart(end, ov) == IF end - ov <= 0 THEN end ELSE end - ov

\* cleaner.py:101
ShortText(t, cs) == Len(t) <= cs

\* a bug the early return could have: the text is trimmed like the others
ShortResultStripped(t) == <<strip(t)>>

\* cleaner.py:102
ShortResult(t) == <<t>>

\* the index is not used by a run of chunk_text alone
IndexUnused ==
    /\ CHUNK_SIZE = 1 /\ CHUNK_OVERLAP = 0
    /\ collection = {} /\ documents = <<>>
    /\ all_chunks = <<>> /\ all_metadatas = <<>> /\ all_ids = <<>>
    /\ batch_i = 0 /\ apc = "idle" /\ results = <<>>
    /\ before = {} /\ prior_docs = <<>> /\ repeat = FALSE /\ calls = 0
    /\ reset_arg = FALSE /\ held = {} /\ failure = "none"

QueryUnused ==
    /\ ranking = <<>> /\ arg_n_results = 1 /\ keyword_filter = <<>>
    /\ qpc = "unused"

FilterUnused ==
    /\ rows = <<>> /\ min_similarity = 0 /\ kept = <<>> /\ shown = <<>>
    /\ consumer = "unused"

AnswerUnused ==
    /\ provider = "anthropic" /\ filtered = <<>>
    /\ context_chunks = <<>> /\ metadata = <<>> /\ llm_outcome = "ok"
    /\ context = <<>> /\ answer = [kind |-> "none"] /\ sources = <<>>
    /\ ui = "unused"

SessionUnused ==
    /\ llm = "None" /\ answer_mode = FALSE /\ session_threshold = 0
    /\ db = {} /\ setup = "none" /\ command = [name |-> "none", arg |-> ""]
    /\ handled = "none" /\ path = "none" /\ entered = <<>>
    /\ spc = "unused"

IdUnused ==
    /\ named = <<>> /\ submitted = <<>> /\ ipc = "unused"

ScriptUnused ==
    /\ pdf_files = <<>> /\ args_reset = FALSE /\ loaded = <<>>
    /\ at_start = {} /\ ppc = "unused"

DetailUnused ==
    /\ choice = [isdigit |-> FALSE, int |-> 0] /\ panel = <<>> /\ dpc = "none"

\* no call of chunk_text
ChunkUnused ==
    /\ text = <<>> /\ chunk_size = 1 /\ overlap = 0 /\ start = 0
    /\ chunks = <<>> /\ windows = <<>> /\ pc = "unused"

ChunkInit ==
    /\ text \in Texts
    /\ chunk_size \in 1..MaxChunkSize
    /\ overlap \in (-1)..MaxChunkSize
    /\ start = 0
    /\ chunks = <<>>
    /\ windows = <<>>
    /\ pc = "call"
    /\ IndexUnused
    /\ QueryUnused
    /\ FilterUnused
    /\ AnswerUnused
    /\ SessionUnused
    /\ IdUnused
    /\ ScriptUnused
    /\ DetailUnused

\* entry of chunk_text, cleaner.py:101-105
ChunkEnter ==
    /\ pc = "call"
    /\ IF ShortText(text, chunk_size)
       THEN chunks' = ShortResult(text) /\ pc' = "returned"
       ELSE chunks' = <<>> /\ pc' = "loop"
    /\ UNCHANGED <<text, chunk_size, overlap, start, windows, exceptChunk>>

\* one iteration of the while loop, cleaner.py:107-135
ChunkIterate ==
    /\ pc = "loop"
    /\ start < Len(text)
    /\ Len(chunks) < MaxIter
    /\ LET end == WindowEnd(text, start, chunk_size)
       IN  /\ chunks' = Append(chunks, ChunkOf(text, start, end))
           /\ windows' = Append(windows, <<start, end>>)
           /\ start' = NextStart(end, overlap)
    /\ UNCHANGED <<text, chunk_size, overlap, pc, exceptChunk>>

\* loop exit and return, cleaner.py:107,137
ChunkReturn ==
    /\ pc = "loop"
    /\ ~(start < Len(text))
    /\ pc' = "returned"
    /\ UNCHANGED <<text, chunk_size, overlap, start, chunks, windows, exceptChunk>>

ChunkNext == ChunkEnter \/ ChunkIterate \/ ChunkReturn

ChunkSpec == ChunkInit /\ [][ChunkNext]_vars

----------------------------------------------------------------------------
(* The cut of one window, cleaner.py:109-126, on texts with every sentence  *)
(* terminator                                                               *)

\* length of the texts a window is cut in
MaxCutLen == 5

CutAlphabet == {"a", " ", ".", "!", "?"}

\* chunk_size of the windows cut
CutSizes == 1..4

\* start of the windows cut: the first window and one inside the text
CutStarts == {0, 1}

CutInit ==
    /\ text \in UNION {[1..n -> CutAlphabet] : n \in 1..MaxCutLen}
    /\ chunk_size \in CutSizes
    /\ start \in {s \in CutStarts : s < Len(text)}
    /\ overlap = 0
    /\ chunks = <<>>
    /\ windows = <<>>
    /\ pc = "cut"
    /\ IndexUnused
    /\ QueryUnused
    /\ FilterUnused
    /\ AnswerUnused
    /\ SessionUnused
    /\ IdUnused
    /\ ScriptUnused
    /\ DetailUnused

\* cleaner.py:109-128 for the window that starts at start: its end and the
\* chunk appended
CutWindow ==
    /\ pc = "cut"
    /\ pc' = "cut_done"
    /\ LET end == WindowEnd(text, start, chunk_size)
       IN  /\ windows' = <<<<start, end>>>>
           /\ chunks' = <<ChunkOf(text, start, end)>>
    /\ UNCHANGED <<text, chunk_size, overlap, start, exceptChunk>>

CutNext == CutWindow

CutSpec == CutInit /\ [][CutNext]_vars

----------------------------------------------------------------------------
(* chunk_text as add_documents calls it                                    *)

\* the while loop of cleaner.py:107-135 from start s with the chunks acc.
\* The loop is deterministic in s: when s comes back the call never returns,
\* which the result reports as returns = FALSE.
RECURSIVE ChunkLoop(_, _, _, _, _, _)
ChunkLoop(t, cs, ov, s, seen, acc) ==
    IF ~(s < Len(t)) THEN [returns |-> TRUE, chunks |-> acc]
    ELSE IF s \in seen THEN [returns |-> FALSE, chunks |-> acc]
    ELSE LET end == WindowEnd(t, s, cs)
         IN  ChunkLoop(t, cs, ov, NextStart(end, ov), seen \cup {s},
                       Append(acc, ChunkOf(t, s, end)))

\* cleaner.py:89-137
chunk_text(t, cs, ov) ==
    IF ShortText(t, cs)
    THEN [returns |-> TRUE, chunks |-> ShortResult(t)]
    ELSE ChunkLoop(t, cs, ov, 0, {}, <<>>)

----------------------------------------------------------------------------
(* The vector index, vectorize.py *)

\* records per batch; vectorize.py:79 has 100, scaled down with the texts
batch_size == 2

\* documents per call
MaxDocs == 2

FileNames == {"a.pdf", "b.pdf"}

\* calls of create_vector_db in one behaviour
MaxCalls == 2

\* document texts.  "b" is one chunk under every configuration; "abc" and
\* "ba c" have the same number of chunks for (2, 0) and different ones for
\* (3, 1), and chunk_text never returns from "ba c" for (2, 1)
DocTexts ==
    { <<"b">>,
      <<"a", "b", "c">>,
      <<"b", "a", " ", "c">> }

\* <<CHUNK_SIZE, CHUNK_OVERLAP>> of config.py:26-27, scaled; the last one
\* is a configuration with overlap >= chunk_size
Configs == {<<2, 0>>, <<2, 1>>, <<3, 1>>, <<2, 2>>}

\* a document as pdf_loader.py:41-45 builds it; content stands for the text
\* vectorize.py:59 selects
Doc(f, t) == [filename |-> f, filepath |-> "pdfs/" \o f, content |-> t]

Injective(q) == \A i, j \in DOMAIN q : q[i] = q[j] => i = j

\* the document lists a call can get: load_pdfs lists the files of one
\* directory, so the filenames of one list are pairwise distinct
DocLists ==
    {d \in UNION {[1..n -> {Doc(f, t) : f \in FileNames, t \in DocTexts}]
                    : n \in 1..MaxDocs}
        : Injective([k \in DOMAIN d |-> d[k].filename])}

\* a bug the id could have: the chunk number is left out
RecordIdNoIndex(filename, i) == filename \o "_chunk_"

\* vectorize.py:75
RecordId(filename, i) == filename \o "_chunk_" \o ToString(i)

\* a bug the metadata could have: chunk_index counted from 1
ChunkMetadataFromOne(doc, i, n) ==
    [filename |-> doc.filename, filepath |-> doc.filepath,
     chunk_index |-> i + 1, total_chunks |-> n]

\* vectorize.py:69-74
ChunkMetadata(doc, i, n) ==
    [filename |-> doc.filename, filepath |-> doc.filepath,
     chunk_index |-> i, total_chunks |-> n]

\* chunk_text on every text under every configuration of the model
ChunkTable ==
    [c \in Configs |-> [t \in DocTexts |-> chunk_text(t, c[1], c[2])]]

\* vectorize.py:63: the chunks of one document under the configuration
DocChunks(doc) == ChunkTable[<<CHUNK_SIZE, CHUNK_OVERLAP>>][doc.content]

\* the documents before the first one chunk_text does not return from
RECURSIVE Chunkable(_)
Chunkable(docs) ==
    IF docs = <<>> \/ ~DocChunks(Head(docs)).returns THEN <<>>
    ELSE <<Head(docs)>> \o Chunkable(Tail(docs))

\* vectorize.py:58-76: the three lists, each built document by document
RECURSIVE BuildChunks(_)
BuildChunks(docs) ==
    IF docs = <<>> THEN <<>>
    ELSE DocChunks(Head(docs)).chunks \o BuildChunks(Tail(docs))

RECURSIVE BuildMetadatas(_)
BuildMetadatas(docs) ==
    IF docs = <<>> THEN <<>>
    ELSE LET ch == DocChunks(Head(docs)).chunks
         IN  [k \in 1..Len(ch) |-> ChunkMetadata(Head(docs), k - 1, Len(ch))]
                 \o BuildMetadatas(Tail(docs))

RECURSIVE BuildIds(_)
BuildIds(docs) ==
    IF docs = <<>> THEN <<>>
    ELSE LET ch == DocChunks(Head(docs)).chunks
         IN  [k \in 1..Len(ch) |-> RecordId(Head(docs).filename, k - 1)]
                 \o BuildIds(Tail(docs))

Ids(coll) == {r.id : r \in coll}

\* the records a call of collection.add submits
BatchRecords(docs_b, metas_b, ids_b) ==
    {[id |-> ids_b[k], document |-> docs_b[k], metadata |-> metas_b[k]]
        : k \in DOMAIN ids_b}

\* a bug the write could have: the records a filename had are dropped first
CollectionReplace(coll, docs_b, metas_b, ids_b) ==
    {r \in coll : \A k \in DOMAIN metas_b :
                      r.metadata.filename # metas_b[k].filename}
        \cup BatchRecords(docs_b, metas_b, ids_b)

\* collection.add of vectorize.py:83-87 on a batch without duplicate ids:
\* Chroma (PersistentClient, 0.4 and later) stores the records whose id is
\* new and leaves a record whose id is already stored as it is
CollectionAdd(coll, docs_b, metas_b, ids_b) ==
    coll \cup {r \in BatchRecords(docs_b, metas_b, ids_b) : r.id \notin Ids(coll)}

\* a store that also rejects an id it already holds
AddRaisesOnStored(coll, ids_b) ==
    ~Injective(ids_b) \/ \E k \in DOMAIN ids_b : ids_b[k] \in Ids(coll)

\* collection.add of vectorize.py:83-87 rejects a batch that names an id
\* twice (DuplicateIDError); ids the collection already holds are no error
AddRaises(coll, ids_b) == ~Injective(ids_b)

\* collection.count() of vectorize.py:139, document_count of the stats
document_count == Cardinality(collection)

\* the n nearest records in rank order, as collection.query reports them:
\* which records are nearest is the embedding model's matter, so every
\* ranking is possible; fewer than n records are all returned
RECURSIVE Rankings(_, _)
Rankings(coll, n) ==
    IF n = 0 \/ coll = {} THEN {<<>>}
    ELSE UNION {{<<r>> \o rest : rest \in Rankings(coll \ {r}, n - 1)} : r \in coll}

\* n_results the callers of the model ask for
QueryCounts == {1}

\* a bug the reset could have: the collection is opened again, not deleted
ResetCollectionKeeps(coll) == coll

\* reset_collection, vectorize.py:146-153: delete_collection and then
\* get_or_create_collection leave a collection of the same name, empty
ResetCollection(coll) == {}

\* a batch loop that logs the failure of a batch and goes on with the next
OnBatchFailureSkip(i, n) ==
    [apc |-> IF i + batch_size < n THEN "batches" ELSE "done",
     batch_i |-> i + batch_size]

\* vectorize.py:80-89 and 167-172 have no try/except: an exception of
\* collection.add leaves the loop, add_documents and create_vector_db with
\* the loop variable where it was
OnBatchFailure(i, n) == [apc |-> "failed", batch_i |-> i]

Init ==
    /\ \E c \in Configs : CHUNK_SIZE = c[1] /\ CHUNK_OVERLAP = c[2]
    /\ collection = {} /\ documents = <<>>
    /\ all_chunks = <<>> /\ all_metadatas = <<>> /\ all_ids = <<>>
    /\ batch_i = 0 /\ apc = "idle" /\ results = <<>>
    /\ before = {} /\ prior_docs = <<>> /\ repeat = FALSE /\ calls = 0
    /\ reset_arg = FALSE /\ held = {} /\ failure = "none"
    /\ text = <<>> /\ chunk_size = 1 /\ overlap = 0 /\ start = 0
    /\ chunks = <<>> /\ windows = <<>> /\ pc = "unused"
    /\ QueryUnused
    /\ FilterUnused
    /\ AnswerUnused
    /\ SessionUnused
    /\ IdUnused
    /\ ScriptUnused
    /\ DetailUnused

\* create_vector_db(docs, reset), vectorize.py:167-172, up to the first
\* batch of add_documents (vectorize.py:52-76): the optional reset
\* (vectorize.py:148-152) and the three lists.  A document chunk_text never
\* returns from leaves the call hanging with the lists built so far.  A call
\* can follow a hung one: the process is interrupted and started again on
\* the persisted collection.
CreateVectorDb(docs, reset) ==
    /\ apc # "batches"
    /\ calls < MaxCalls
    /\ calls' = calls + 1
    /\ results' = <<>>
    /\ documents' = docs
    /\ reset_arg' = reset /\ held' = collection /\ failure' = "none"
    /\ collection' = IF reset THEN ResetCollection(collection) ELSE collection
    /\ before' = collection'
    /\ repeat' = (~reset /\ docs = prior_docs)
    /\ prior_docs' = <<>>
    /\ all_chunks' = BuildChunks(Chunkable(docs))
    /\ all_metadatas' = BuildMetadatas(Chunkable(docs))
    /\ all_ids' = BuildIds(Chunkable(docs))
    /\ batch_i' = 0
    /\ apc' = IF Chunkable(docs) = docs THEN "batches" ELSE "hung"
    /\ UNCHANGED <<CHUNK_SIZE, CHUNK_OVERLAP, exceptIndex>>

\* one iteration of the batch loop, vectorize.py:80-89, and the return of
\* add_documents after the last one
AddBatch ==
    /\ apc = "batches"
    /\ LET batch_end == Min2(batch_i + batch_size, Len(all_chunks))
           ids_b == SubSeq(all_ids, batch_i + 1, batch_end)
       IN  IF AddRaises(collection, ids_b)
           THEN /\ apc' = "raised"
                /\ UNCHANGED <<collection, batch_i, prior_docs>>
           ELSE /\ collection' =
                      CollectionAdd(collection,
                                    SubSeq(all_chunks, batch_i + 1, batch_end),
                                    SubSeq(all_metadatas, batch_i + 1, batch_end),
                                    ids_b)
                /\ batch_i' = batch_i + batch_size
                /\ IF batch_i + batch_size < Len(all_chunks)
                   THEN apc' = "batches" /\ UNCHANGED prior_docs
                   ELSE apc' = "done" /\ prior_docs' = documents
    /\ UNCHANGED <<CHUNK_SIZE, CHUNK_OVERLAP, documents, all_chunks,
                   all_metadatas, all_ids, results, before, repeat, calls,
                   reset_arg, held, failure, exceptIndex>>

\* create_vector_db(docs, True) when the index fails in reset_collection,
\* vectorize.py:148-152: the exception leaves create_vector_db at
\* vectorize.py:168-169, before add_documents.  delete_collection failed and
\* the records are all there, or get_or_create_collection failed after it and
\* none is.
ResetFails(docs) ==
    /\ apc # "batches"
    /\ calls < MaxCalls
    /\ calls' = calls + 1
    /\ results' = <<>>
    /\ documents' = docs
    /\ reset_arg' = TRUE /\ held' = collection /\ failure' = "reset"
    /\ collection' \in {collection, ResetCollection(collection)}
    /\ before' = collection'
    /\ repeat' = FALSE
    /\ prior_docs' = <<>>
    /\ all_chunks' = <<>> /\ all_metadatas' = <<>> /\ all_ids' = <<>>
    /\ batch_i' = 0
    /\ apc' = "failed"
    /\ UNCHANGED <<CHUNK_SIZE, CHUNK_OVERLAP, exceptIndex>>

\* an iteration of the batch loop in which the index fails in
\* collection.add, vectorize.py:83-87; the batch is not stored
AddBatchFails ==
    /\ apc = "batches"
    /\ apc' = OnBatchFailure(batch_i, Len(all_chunks)).apc
    /\ batch_i' = OnBatchFailure(batch_i, Len(all_chunks)).batch_i
    /\ failure' = "batch"
    /\ prior_docs' = <<>>
    /\ UNCHANGED <<CHUNK_SIZE, CHUNK_OVERLAP, collection, documents, all_chunks,
                   all_metadatas, all_ids, results, before, repeat, calls,
                   reset_arg, held, exceptIndex>>

\* VectorDB.query(query_text, n_results) as its callers use it, without a
\* keyword filter, vectorize.py:105-135
Query(n_results) ==
    /\ apc # "batches"
    /\ \E ranked \in Rankings(collection, n_results) : results' = ranked
    /\ UNCHANGED <<CHUNK_SIZE, CHUNK_OVERLAP, collection, documents, all_chunks,
                   all_metadatas, all_ids, batch_i, apc, before, prior_docs,
                   repeat, calls, reset_arg, held, failure, exceptIndex>>

Next ==
    \/ \E docs \in DocLists, reset \in BOOLEAN : CreateVectorDb(docs, reset)
    \/ \E docs \in DocLists : ResetFails(docs)
    \/ AddBatch
    \/ AddBatchFails
    \/ \E n \in QueryCounts : Query(n)

Spec == Init /\ [][Next]_vars

----------------------------------------------------------------------------
(* VectorDB.query with its keyword filter, vectorize.py:93-135 *)

\* records in the collection queried
MaxCands == 7

\* largest n_results asked for
MaxResults == 2

\* texts of the stored records: "k" is in two of them up to case, "ka" in one
CandTexts == {<<"a", "b">>, <<"K">>, <<"x", "k", "A">>}

\* keyword_filter: None or "" (both falsy at vectorize.py:107 and 112), "k",
\* "Ka" and "z"
Keywords == {<<>>, <<"k">>, <<"K", "a">>, <<"z">>}

\* the collection as the index ranks it for the query text: rank is the
\* position of the record, which stands for its metadata and its distance
RankingsOf(n) ==
    {[i \in 1..n |-> [rank |-> i, document |-> t[i]]] : t \in [1..n -> CandTexts]}

\* str.lower() on the characters of the model
Lower(c) == IF c = "K" THEN "k" ELSE IF c = "A" THEN "a" ELSE c

LowerStr(t) == [i \in DOMAIN t |-> Lower(t[i])]

\* Python's  sub in t  for strings
Contains(sub, t) ==
    \E i \in 0..(Len(t) - Len(sub)) : SubSeq(t, i + 1, i + Len(sub)) = sub

\* a store that refuses to return fewer rows than asked for
IndexQueryRaisesWhenShort(rk, n) == n > Len(rk)

\* collection.query of vectorize.py:105-109 on a collection of fewer than
\* n records, the empty one included: Chroma (PersistentClient, 0.4 and
\* later) returns the records it has, as one list per query text
IndexQueryRaises(rk, n) == FALSE

\* collection.query of vectorize.py:105-109: the n nearest, in rank order
IndexQuery(rk, n) == SubSeq(rk, 1, Min2(n, Len(rk)))

\* a bug the fetch could have: no more candidates asked for than results
FetchCountNoWiden(n, kw) == n

\* vectorize.py:107
FetchCount(n, kw) == IF kw # <<>> THEN n * 3 ELSE n

\* vectorize.py:118-127: the loop over the candidates with its break
RECURSIVE KeywordLoop(_, _, _, _)
KeywordLoop(cands, keyword_lower, n, filtered_docs) ==
    IF cands = <<>> THEN filtered_docs
    ELSE IF Contains(keyword_lower, LowerStr(Head(cands).document))
         THEN IF Len(filtered_docs) + 1 >= n
              THEN Append(filtered_docs, Head(cands))
              ELSE KeywordLoop(Tail(cands), keyword_lower, n,
                               Append(filtered_docs, Head(cands)))
         ELSE KeywordLoop(Tail(cands), keyword_lower, n, filtered_docs)

\* a bug the filter could have: the candidates are kept as fetched when
\* none of them matches
FilteredResultsOrAll(cands, kw, n) ==
    IF kw # <<>> /\ cands # <<>>
           /\ KeywordLoop(cands, LowerStr(kw), n, <<>>) # <<>>
    THEN KeywordLoop(cands, LowerStr(kw), n, <<>>)
    ELSE cands

\* vectorize.py:112-135: the value query returns for the fetched candidates
FilteredResults(cands, kw, n) ==
    IF kw # <<>> /\ cands # <<>>
    THEN KeywordLoop(cands, LowerStr(kw), n, <<>>)
    ELSE cands

QueryInit ==
    /\ ranking \in UNION {RankingsOf(n) : n \in 0..MaxCands}
    /\ arg_n_results \in 1..MaxResults
    /\ keyword_filter \in Keywords
    /\ qpc = "call"
    /\ ChunkUnused
    /\ IndexUnused
    /\ FilterUnused
    /\ AnswerUnused
    /\ SessionUnused
    /\ IdUnused
    /\ ScriptUnused
    /\ DetailUnused

\* VectorDB.query(query_text, n_results, keyword_filter), vectorize.py:93-135
VectorDbQuery ==
    /\ qpc = "call"
    /\ LET n == FetchCount(arg_n_results, keyword_filter)
       IN  IF IndexQueryRaises(ranking, n)
           THEN qpc' = "raised" /\ results' = <<>>
           ELSE /\ qpc' = "returned"
                /\ results' = FilteredResults(IndexQuery(ranking, n),
                                              keyword_filter, arg_n_results)
    /\ UNCHANGED <<ranking, arg_n_results, keyword_filter, exceptQuery>>

QueryNext == VectorDbQuery

QuerySpec == QueryInit /\ [][QueryNext]_vars

----------------------------------------------------------------------------
(* The consumers of the rows: similarity and the threshold filter of         *)
(* query_cli.py, app.py, inspect_vectordb.py and explain_retrieval.py        *)

\* Distances and cosine similarities are counted in hundredths and
\* percentages in hundredths of a percent, so that the float expressions of
\* the code are exact in integers: 1.0 is Scale and 100 * x is 100 times x
Scale == 100

\* rows of a bounded list
MaxRows == 3

\* cosine distances 0, 0.05, 0.2, 0.8, 1, 1.5, 1.9, 2 and 2.5
Distances == {0, 5, 20, 80, 100, 150, 190, 200, 250}

\* min_similarity 0, 25, 60 and 100 percent; query_cli.py:206 and the slider
\* of app.py:136-143 keep it within 0..100
Thresholds == {0, 25 * Scale, 60 * Scale, 100 * Scale}

\* the rows of a result: row is the position in the result, counted from 0,
\* which stands for the text and the metadata of the row
RowsOf(ds) == [i \in DOMAIN ds |-> [row |-> i - 1, distance |-> ds[i]]]

\* five rows in an order the index would not rank them in, and the same
\* rows as the index ranks them
UnrankedRows == RowsOf(<<20, 80, 150, 190, 5>>)

RankedRows == RowsOf(<<5, 20, 80, 150, 190>>)

\* the results a consumer is called with: display_results and the filter
\* loops take the rows as they are given, in any order
RowLists ==
    {RowsOf(ds) : ds \in UNION {[1..n -> Distances] : n \in 0..MaxRows}}
        \cup {UnrankedRows, RankedRows}

\* a bug the conversion could have: no clamp at 0
similarity_unclamped(distance) == (100 * (2 * Scale - distance)) \div 2

\* query_cli.py:233, max(0, 100 * (1 - distance / 2))
similarity_cli(distance) == Max2(0, (100 * (2 * Scale - distance)) \div 2)

\* query_cli.py:39
similarity_table(distance) == Max2(0, (100 * (2 * Scale - distance)) \div 2)

\* app.py:89
similarity_web(distance) == Max2(0, (100 * (2 * Scale - distance)) \div 2)

\* inspect_vectordb.py:136
similarity_inspect(distance) == Max2(0, (100 * (2 * Scale - distance)) \div 2)

\* explain_retrieval.py:56-67: percentage = similarity * 100 of the cosine
\* similarity of the two vectors, which is 1 - distance for the cosine
\* distance the index reports (vectorize.py:39)
percentage_explain(distance) == (Scale - distance) * 100

\* a bug the filter could have: the row at the threshold is dropped
KeepStrict(sim, min) == sim > min

\* query_cli.py:41 and 234, app.py:90
Keep(sim, min) == sim >= min

\* the loops of query_cli.py:232-236 and 36-42 and of app.py:88-93: the
\* rows whose similarity passes, appended in the order of the input
RECURSIVE FilterLoop(_, _, _)
FilterLoop(rws, sims, min) ==
    IF rws = <<>> THEN <<>>
    ELSE (IF Keep(Head(sims), min) THEN <<Head(rws)>> ELSE <<>>)
             \o FilterLoop(Tail(rws), Tail(sims), min)

\* sorted(similarities.items(), key=..., reverse=True) of
\* explain_retrieval.py:72: a stable sort, highest similarity first
RECURSIVE InsertRanked(_, _)
InsertRanked(r, sorted) ==
    IF sorted = <<>> THEN <<r>>
    ELSE IF percentage_explain(Head(sorted).distance)
                >= percentage_explain(r.distance)
         THEN <<Head(sorted)>> \o InsertRanked(r, Tail(sorted))
         ELSE <<r>> \o sorted

RECURSIVE Ranked(_)
Ranked(rws) ==
    IF rws = <<>> THEN <<>>
    ELSE InsertRanked(rws[Len(rws)], Ranked(SubSeq(rws, 1, Len(rws) - 1)))

FilterInit ==
    /\ rows \in RowLists
    /\ min_similarity \in Thresholds
    /\ kept = <<>> /\ shown = <<>> /\ consumer = "none"
    /\ ChunkUnused
    /\ IndexUnused
    /\ QueryUnused
    /\ AnswerUnused
    /\ SessionUnused
    /\ IdUnused
    /\ ScriptUnused
    /\ DetailUnused

\* the answer path of the CLI, query_cli.py:224-240
CliFilter ==
    /\ consumer = "none"
    /\ consumer' = "cli"
    /\ LET sims == [i \in DOMAIN rows |-> similarity_cli(rows[i].distance)]
       IN  /\ kept' = FilterLoop(rows, sims, min_similarity)
           /\ shown' = FilterLoop(sims, sims, min_similarity)
    /\ UNCHANGED <<rows, min_similarity, exceptFilter>>

\* the results table of the CLI, display_results, query_cli.py:30-42
DisplayResults ==
    /\ consumer = "none"
    /\ consumer' = "table"
    /\ LET sims == [i \in DOMAIN rows |-> similarity_table(rows[i].distance)]
       IN  /\ kept' = FilterLoop(rows, sims, min_similarity)
           /\ shown' = FilterLoop(sims, sims, min_similarity)
    /\ UNCHANGED <<rows, min_similarity, exceptFilter>>

\* the web UI, query_rag, app.py:79-93
QueryRag ==
    /\ consumer = "none"
    /\ consumer' = "web"
    /\ LET sims == [i \in DOMAIN rows |-> similarity_web(rows[i].distance)]
       IN  /\ kept' = FilterLoop(rows, sims, min_similarity)
           /\ shown' = FilterLoop(sims, sims, min_similarity)
    /\ UNCHANGED <<rows, min_similarity, exceptFilter>>

\* the database inspector, inspect_vectordb.py:128-141: every row is
\* listed with its similarity
InspectQuery ==
    /\ consumer = "none"
    /\ consumer' = "inspect"
    /\ kept' = rows
    /\ shown' = [i \in DOMAIN rows |-> similarity_inspect(rows[i].distance)]
    /\ UNCHANGED <<rows, min_similarity, exceptFilter>>

\* the retrieval explanation script, explain_retrieval.py:63-94: the
\* candidates are ranked and those of the first three with a percentage of
\* 60 or more are listed
ExplainRetrieval ==
    /\ consumer = "none"
    /\ consumer' = "explain"
    /\ LET ranked == Ranked(rows)
           top == SubSeq(ranked, 1, Min2(3, Len(ranked)))
           sims == [i \in DOMAIN top |-> percentage_explain(top[i].distance)]
       IN  /\ kept' = FilterLoop(top, sims, 60 * Scale)
           /\ shown' = FilterLoop(sims, sims, 60 * Scale)
    /\ UNCHANGED <<rows, min_similarity, exceptFilter>>

\* the lines typed at the detail prompt: Enter or a word, or a number
DetailChoices ==
    {[isdigit |-> FALSE, int |-> 0]}
        \cup {[isdigit |-> TRUE, int |-> k] : k \in 0..(MaxRows + 1)}

\* the detail prompt of display_results, query_cli.py:78-88, reached when
\* the table has a row (query_cli.py:44-47): the number typed is checked
\* against len(documents) and indexes documents and metadatas, the lists
\* of every row the query returned
DetailChoice(typed) ==
    /\ consumer = "table" /\ kept # <<>>
    /\ dpc = "none"
    /\ dpc' = "typed"
    /\ choice' = typed
    /\ panel' = IF typed.isdigit /\ 1 <= typed.int /\ typed.int <= Len(rows)
                THEN <<rows[typed.int]>>
                ELSE <<>>
    /\ UNCHANGED exceptDetail

FilterNext ==
    \/ CliFilter
    \/ DisplayResults
    \/ QueryRag
    \/ InspectQuery
    \/ ExplainRetrieval
    \/ \E typed \in DetailChoices : DetailChoice(typed)

FilterSpec == FilterInit /\ [][FilterNext]_vars

----------------------------------------------------------------------------
(* The answer path: LLMAnswerGenerator.generate_answer (llm.py) as the CLI   *)
(* (query_cli.py:245-262) and the web UI (app.py:98-108, 195-204) call it    *)

\* rows that passed the threshold
MaxKept == 6

\* the chunks handed to generate_answer and listed as sources by the CLI,
\* query_cli.py:249 and 261
CliChunks == 5

\* n_chunks of the web UI, from the slider of app.py:146-152
WebChunks == {1, 5}

\* the providers a generator can be constructed for, llm.py:23-40
Providers == {"anthropic", "openai", "ollama"}

\* the provider call returns a text, raises, or answers with an HTTP status
\* other than 200
Outcomes == {"ok", "exception", "status"}

\* metadata of the rows, as add_documents stored it
RowMetas ==
    {[filename |-> "a.pdf", chunk_index |-> 0],
     [filename |-> "a.pdf", chunk_index |-> 1],
     [filename |-> "b.pdf", chunk_index |-> 0]}

\* a row that passed the threshold: its text is named after the record
RowOf(m) == [chunk |-> <<m.filename, m.chunk_index>>, metadata |-> m]

\* list[:n]
Prefix(list, n) == SubSeq(list, 1, Min2(n, Len(list)))

\* a bug the labels could have: enumerate(chunks) counts from 0
FormatContextFromZero(chs, metas) ==
    [i \in DOMAIN chs |->
        IF metas # <<>> /\ i <= Len(metas)
        THEN [marker |-> i - 1, filename |-> metas[i].filename,
              chunk_number |-> metas[i].chunk_index + 1, text |-> chs[i]]
        ELSE [marker |-> i - 1, filename |-> "", chunk_number |-> 0,
              text |-> chs[i]]]

\* _format_context, llm.py:68-84: one entry "[i] (Source: filename, Chunk
\* chunk_index + 1)" and the chunk for each chunk, i counted from 1; an
\* entry without metadata has no source.  No chunks give the text "No
\* relevant information found.", which has no entry.
FormatContext(chs, metas) ==
    [i \in DOMAIN chs |->
        IF metas # <<>> /\ i <= Len(metas)
        THEN [marker |-> i, filename |-> metas[i].filename,
              chunk_number |-> metas[i].chunk_index + 1, text |-> chs[i]]
        ELSE [marker |-> i, filename |-> "", chunk_number |-> 0,
              text |-> chs[i]]]

\* a provider method without its try/except
GenerateUnguarded(p, outcome, ctx) ==
    IF outcome = "ok" THEN [kind |-> "text", provider |-> p, prompt |-> ctx]
    ELSE [kind |-> "raised", provider |-> p]

\* _generate_anthropic, _generate_openai and _generate_ollama,
\* llm.py:99-146: the text of the provider, or for an exception of the call
\* the string "Error generating answer with ...: e"; the two SDK clients
\* raise for a status other than 200, and _generate_ollama returns "Error:
\* Ollama returned status ..." for it
Generate(p, outcome, ctx) ==
    IF outcome = "ok" THEN [kind |-> "text", provider |-> p, prompt |-> ctx]
    ELSE IF p = "ollama" /\ outcome = "status"
         THEN [kind |-> "error", provider |-> p, says |-> "status"]
         ELSE [kind |-> "error", provider |-> p, says |-> "exception"]

\* query_cli.py:261-262 and app.py:198-201: the numbered list of sources
SourceList(metas) ==
    [i \in DOMAIN metas |->
        [number |-> i, filename |-> metas[i].filename,
         chunk_number |-> metas[i].chunk_index + 1]]

AnswerInit ==
    /\ provider \in Providers
    /\ filtered \in UNION {[1..n -> {RowOf(m) : m \in RowMetas}] : n \in 1..MaxKept}
    /\ context_chunks = <<>> /\ metadata = <<>> /\ llm_outcome = "ok"
    /\ context = <<>> /\ answer = [kind |-> "none"] /\ sources = <<>>
    /\ ui = "none"
    /\ ChunkUnused
    /\ IndexUnused
    /\ QueryUnused
    /\ FilterUnused
    /\ SessionUnused
    /\ IdUnused
    /\ ScriptUnused
    /\ DetailUnused

\* generate_answer(question, chs, metas), llm.py:42-66, and the source list
\* the caller shows for the same slice
AnswerWith(chs, metas, outcome) ==
    /\ context_chunks' = chs
    /\ metadata' = metas
    /\ llm_outcome' = outcome
    /\ context' = FormatContext(chs, metas)
    /\ answer' = Generate(provider, outcome, FormatContext(chs, metas))
    /\ sources' = SourceList(metas)

\* the answer mode of the CLI, query_cli.py:245-262
CliAnswer(outcome) ==
    /\ ui = "none"
    /\ ui' = "cli"
    /\ AnswerWith(Prefix([k \in DOMAIN filtered |-> filtered[k].chunk], CliChunks),
                  Prefix([k \in DOMAIN filtered |-> filtered[k].metadata], CliChunks),
                  outcome)
    /\ UNCHANGED <<provider, filtered, exceptAnswer>>

\* query_rag of the web UI, app.py:98-108, and its source list,
\* app.py:195-204
WebAnswer(n_results, outcome) ==
    /\ ui = "none"
    /\ ui' = "web"
    /\ AnswerWith(Prefix([k \in DOMAIN filtered |-> filtered[k].chunk], n_results),
                  Prefix([k \in DOMAIN filtered |-> filtered[k].metadata], n_results),
                  outcome)
    /\ UNCHANGED <<provider, filtered, exceptAnswer>>

AnswerNext ==
    \/ \E outcome \in Outcomes : CliAnswer(outcome)
    \/ \E n \in WebChunks, outcome \in Outcomes : WebAnswer(n, outcome)

AnswerSpec == AnswerInit /\ [][AnswerNext]_vars

----------------------------------------------------------------------------
(* One session of the query CLI: the optional LLM setup and the command     *)
(* loop of main, query_cli.py:117-272                                       *)

\* the indexes a session can be connected to: main returns before the setup
\* when the index is empty (query_cli.py:108-110)
SessionIndexes == {{"a_chunk_0"}, {"a_chunk_0", "a_chunk_1"}}

\* the answers to the prompt "Choose (1-4)"
SetupChoices == {"1", "2", "3", "4", ""}

\* provider_map, query_cli.py:130
provider_map(setup_choice) ==
    CASE setup_choice = "1" -> "anthropic"
      [] setup_choice = "2" -> "openai"
      [] setup_choice = "3" -> "ollama"

\* the word after "mode ", lower-cased
ModeArgs == {"answer", "chunks", "other"}

\* the word after "threshold "
ThresholdTokens == {"0", "25", "70", "100", "101", "-1", "nan", "abc"}

\* float(token) on those words: the value in hundredths, whether it is a
\* NaN, or the ValueError
float(token) ==
    CASE token = "0" -> [raises |-> FALSE, nan |-> FALSE, value |-> 0]
      [] token = "25" -> [raises |-> FALSE, nan |-> FALSE, value |-> 25 * Scale]
      [] token = "70" -> [raises |-> FALSE, nan |-> FALSE, value |-> 70 * Scale]
      [] token = "100" -> [raises |-> FALSE, nan |-> FALSE, value |-> 100 * Scale]
      [] token = "101" -> [raises |-> FALSE, nan |-> FALSE, value |-> 101 * Scale]
      [] token = "-1" -> [raises |-> FALSE, nan |-> FALSE, value |-> (-1) * Scale]
      [] token = "nan" -> [raises |-> FALSE, nan |-> TRUE, value |-> 0]
      [] OTHER -> [raises |-> TRUE, nan |-> FALSE, value |-> 0]

\* threshold, mode and index as the loop reads a line
SessionState == <<session_threshold, answer_mode, db>>

SessionInit ==
    /\ llm = "None" /\ answer_mode = FALSE
    /\ session_threshold = 60 * Scale
    /\ db \in SessionIndexes
    /\ setup = "none" /\ command = [name |-> "none", arg |-> ""]
    /\ handled = "none" /\ path = "none"
    /\ entered = <<60 * Scale, FALSE, db>>
    /\ spc = "setup"
    /\ ChunkUnused
    /\ IndexUnused
    /\ QueryUnused
    /\ FilterUnused
    /\ AnswerUnused
    /\ IdUnused
    /\ ScriptUnused
    /\ DetailUnused

\* the LLM setup, query_cli.py:117-156: the choice typed, whether the
\* provider's key is in the environment, whether a key is typed at the
\* prompt, and whether the constructor of LLMAnswerGenerator raises
Setup(setup_choice, env_key, typed_key, raises) ==
    /\ spc = "setup"
    /\ spc' = "loop"
    /\ LET constructs ==
               /\ setup_choice \in {"1", "2", "3"}
               /\ \/ provider_map(setup_choice) = "ollama"
                  \/ env_key
                  \/ typed_key
       IN  IF constructs /\ ~raises
           THEN llm' = provider_map(setup_choice) /\ answer_mode' = TRUE
                /\ setup' = "enabled"
           ELSE /\ UNCHANGED <<llm, answer_mode>>
                /\ setup' = IF constructs THEN "failed" ELSE "skipped"
    /\ UNCHANGED <<session_threshold, db, command, handled, path, entered,
                   exceptSession>>

\* 'stats', query_cli.py:178-186: the statistics are read and printed up to
\* the line that names keyword_mode, which is bound nowhere: the NameError
\* leaves the branch for the except clause of the loop (271-272)
Stats ==
    /\ spc = "loop"
    /\ command' = [name |-> "stats", arg |-> ""]
    /\ entered' = SessionState
    /\ handled' = "generic"
    /\ path' = "none"
    /\ UNCHANGED <<llm, answer_mode, session_threshold, db, setup, spc,
                   exceptSession>>

ModeSwitchUnchecked(mode, generator, current) ==
    IF mode = "answer" THEN TRUE
    ELSE IF mode = "chunks" THEN FALSE
    ELSE current

\* the mode after 'mode <word>', query_cli.py:190-199
ModeSwitch(mode, generator, current) ==
    IF mode = "answer" /\ generator # "None" THEN TRUE
    ELSE IF mode = "chunks" THEN FALSE
    ELSE current

\* 'mode <word>', query_cli.py:188-200
Mode(mode) ==
    /\ spc = "loop"
    /\ command' = [name |-> "mode", arg |-> mode]
    /\ entered' = SessionState
    /\ answer_mode' = ModeSwitch(mode, llm, answer_mode)
    /\ handled' = "branch"
    /\ path' = "none"
    /\ UNCHANGED <<llm, session_threshold, db, setup, spc, exceptSession>>

\* 'threshold <word>', query_cli.py:202-213
Threshold(token) ==
    /\ spc = "loop"
    /\ command' = [name |-> "threshold", arg |-> token]
    /\ entered' = SessionState
    /\ LET new_threshold == float(token)
       IN  session_threshold' =
               IF /\ ~new_threshold.raises
                  /\ ~new_threshold.nan
                  /\ 0 <= new_threshold.value
                  /\ new_threshold.value <= 100 * Scale
               THEN new_threshold.value
               ELSE session_threshold
    /\ handled' = "branch"
    /\ path' = "none"
    /\ UNCHANGED <<llm, answer_mode, db, setup, spc, exceptSession>>

\* any other line is a query, query_cli.py:215-266: whether a chunk passes
\* the threshold, and whether db.query or the answer path raises
QueryCmd(hit, raises) ==
    /\ spc = "loop"
    /\ command' = [name |-> "query", arg |-> ""]
    /\ entered' = SessionState
    /\ handled' = IF raises THEN "generic" ELSE "query"
    /\ path' = IF raises THEN "none"
               ELSE IF ~hit THEN "empty"
               ELSE IF answer_mode /\ llm # "None" THEN "answer"
               ELSE "chunks"
    /\ UNCHANGED <<llm, answer_mode, session_threshold, db, setup, spc,
                   exceptSession>>

\* 'exit', 'quit', 'q' or Ctrl-C, query_cli.py:174-176, 268-270
Exit ==
    /\ spc = "loop"
    /\ spc' = "exited"
    /\ command' = [name |-> "exit", arg |-> ""]
    /\ entered' = SessionState
    /\ handled' = "branch"
    /\ path' = "none"
    /\ UNCHANGED <<llm, answer_mode, session_threshold, db, setup,
                   exceptSession>>

SessionNext ==
    \/ \E setup_choice \in SetupChoices, env_key \in BOOLEAN,
          typed_key \in BOOLEAN, raises \in BOOLEAN :
           Setup(setup_choice, env_key, typed_key, raises)
    \/ Stats
    \/ \E mode \in ModeArgs : Mode(mode)
    \/ \E token \in ThresholdTokens : Threshold(token)
    \/ \E hit \in BOOLEAN, raises \in BOOLEAN : QueryCmd(hit, raises)
    \/ Exit

SessionSpec == SessionInit /\ [][SessionNext]_vars

----------------------------------------------------------------------------
(* The ids add_documents builds, vectorize.py:58-76, on filenames that       *)
(* themselves contain "_chunk_" and digits                                   *)

\* names load_pdfs can find in a directory (pdf_loader.py:26, 42)
IdFileNames ==
    {"a.pdf", "a_chunk_1.pdf", "a.pdf_chunk_1.pdf", "a.pdf_chunk_10.pdf",
     "_chunk_0.pdf"}

\* chunks of one document; from 11 on the index has two digits
MaxIdChunks == 11

\* the documents of a call: pairwise distinct filenames, each with its
\* number of chunks
IdDocLists ==
    {d \in UNION {[1..n -> [filename : IdFileNames, total : 1..MaxIdChunks]]
                    : n \in 1..MaxDocs}
        : Injective([k \in DOMAIN d |-> d[k].filename])}

IdInit ==
    /\ named \in IdDocLists
    /\ submitted = <<>> /\ ipc = "call"
    /\ ChunkUnused
    /\ IndexUnused
    /\ QueryUnused
    /\ FilterUnused
    /\ AnswerUnused
    /\ SessionUnused
    /\ ScriptUnused
    /\ DetailUnused

\* vectorize.py:58-76: the ids of the chunks, document by document
RECURSIVE IdsOf(_)
IdsOf(docs) ==
    IF docs = <<>> THEN <<>>
    ELSE [k \in 1..Head(docs).total |-> RecordId(Head(docs).filename, k - 1)]
             \o IdsOf(Tail(docs))

BuildIdList ==
    /\ ipc = "call"
    /\ ipc' = "built"
    /\ submitted' = IdsOf(named)
    /\ UNCHANGED <<named, exceptId>>

IdNext == BuildIdList

IdSpec == IdInit /\ [][IdNext]_vars

----------------------------------------------------------------------------
(* One run of the processing script, process_pdfs.py main, on the persisted  *)
(* index: load_pdfs, the early return, and create_vector_db                  *)

\* the PDF files a directory can hold: pairwise distinct names, in the
\* order glob lists them, each with its text and whether the extraction
\* succeeds
PdfDirs ==
    {d \in UNION {[1..n -> [filename : FileNames, content : DocTexts,
                            readable : BOOLEAN]] : n \in 0..MaxDocs}
        : Injective([k \in DOMAIN d |-> d[k].filename])}

\* load_pdfs, pdf_loader.py:26-53: the files whose extraction succeeds, in
\* order; a file whose extraction raises is skipped
RECURSIVE load_pdfs(_)
load_pdfs(files) ==
    IF files = <<>> THEN <<>>
    ELSE (IF Head(files).readable
          THEN <<Doc(Head(files).filename, Head(files).content)>>
          ELSE <<>>) \o load_pdfs(Tail(files))

\* a script that goes on to the database step whatever was loaded
AfterLoadAlways(docs) == "loaded"

\* process_pdfs.py:63-65
AfterLoad(docs) == IF docs = <<>> THEN "exited" ELSE "loaded"

\* the records an earlier run left in the index: none, or those of one
\* document under the configuration
EarlierRecords ==
    {{}} \cup
    {BatchRecords(BuildChunks(d), BuildMetadatas(d), BuildIds(d))
        : d \in {l \in DocLists : Len(l) = 1 /\ Chunkable(l) = l}}

ScriptInit ==
    /\ \E c \in Configs : CHUNK_SIZE = c[1] /\ CHUNK_OVERLAP = c[2]
    /\ collection \in EarlierRecords
    /\ documents = <<>>
    /\ all_chunks = <<>> /\ all_metadatas = <<>> /\ all_ids = <<>>
    /\ batch_i = 0 /\ apc = "idle" /\ results = <<>>
    /\ before = {} /\ prior_docs = <<>> /\ repeat = FALSE /\ calls = 0
    /\ reset_arg = FALSE /\ held = {} /\ failure = "none"
    /\ pdf_files \in PdfDirs
    /\ args_reset \in BOOLEAN
    /\ loaded = <<>>
    /\ at_start = collection
    /\ ppc = "start"
    /\ ChunkUnused
    /\ QueryUnused
    /\ FilterUnused
    /\ AnswerUnused
    /\ SessionUnused
    /\ IdUnused
    /\ DetailUnused

\* step 1 and the early return, process_pdfs.py:59-65
ScriptLoad ==
    /\ ppc = "start"
    /\ loaded' = load_pdfs(pdf_files)
    /\ ppc' = AfterLoad(load_pdfs(pdf_files))
    /\ UNCHANGED <<pdf_files, args_reset, at_start, exceptScript>>

\* steps 2 and 3 or the optional save raise, process_pdfs.py:67-81: the run
\* ends before the database step
ScriptPrepareFails ==
    /\ ppc = "loaded" /\ calls = 0
    /\ ppc' = "raised"
    /\ UNCHANGED <<pdf_files, args_reset, loaded, at_start, exceptScript>>

\* step 4, process_pdfs.py:83-88
ScriptCreate ==
    /\ ppc = "loaded" /\ calls = 0
    /\ \/ CreateVectorDb(loaded, args_reset)
       \/ args_reset /\ ResetFails(loaded)

ScriptNext ==
    \/ ScriptLoad
    \/ ScriptPrepareFails
    \/ ScriptCreate
    \/ ppc = "loaded" /\ AddBatch
    \/ ppc = "loaded" /\ AddBatchFails

ScriptSpec == ScriptInit /\ [][ScriptNext]_vars

----------------------------------------------------------------------------
(* Properties of chunk_text, checked under ChunkSpec *)

ValidParams == 0 <= overlap /\ overlap < chunk_size

CeilDiv(a, b) == (a + b - 1) \div b

StartsSeen == {windows[i][1] : i \in DOMAIN windows}

IsStripped(c) ==
    c = <<>> \/ (Head(c) \notin Whitespace /\ c[Len(c)] \notin Whitespace)

\* no iteration so far was cut short at a sentence or word boundary
NoShortCut == \A i \in DOMAIN windows : windows[i][2] = windows[i][1] + chunk_size

\* position p lies in the window of iteration i
InWindow(p, i) == windows[i][1] <= p /\ p < windows[i][2]

\* position p lies in the chunk appended by iteration i: the chunk is the
\* slice of the text that is left of the window after trimming, and p is in it
InChunk(p, i) ==
    LET sl == Slice(text, windows[i][1], windows[i][2])
        lo == windows[i][1] + LeadWs(sl)
        hi == Min2(windows[i][2], Len(text)) - TrailWs(sl)
    IN  lo <= p /\ p < hi /\ chunks[i] = Slice(text, lo, hi)

Positions == 0..(Len(text) - 1)

\* C1: for 0 <= overlap < chunk_size chunk_text terminates.  The loop is
\* deterministic and its only control state is start, so it terminates
\* exactly when no value of start comes back at the while test; the claim
\* is stated as that: at the while test, start was never the start of an
\* earlier iteration.
ChunkTextTerminates ==
    (ValidParams /\ pc = "loop") => start \notin StartsSeen

\* C2 (as claimed): for len(text) > chunk_size and valid parameters a call
\* that returns has made at most ceil(len(text)/(chunk_size-overlap))+1
\* iterations, also when chunks were cut short at boundaries.
ChunkCountBound ==
    (ValidParams /\ Len(text) > chunk_size /\ pc = "returned")
        => Len(chunks) <= CeilDiv(Len(text), chunk_size - overlap) + 1

\* C2 (amended): the bound holds, at every point of the call, as long as no
\* iteration was cut short at a sentence or word boundary.
ChunkCountBoundNoCut ==
    (ValidParams /\ Len(text) > chunk_size /\ NoShortCut)
        => Len(chunks) <= CeilDiv(Len(text), chunk_size - overlap) + 1

ChunkCountBoundNoCutWitness ==
    /\ pc = "returned" /\ ValidParams /\ Len(text) > chunk_size /\ NoShortCut
    /\ overlap > 0 /\ " " \in {text[i] : i \in DOMAIN text}
    /\ Len(chunks) = CeilDiv(Len(text), chunk_size - overlap)
    /\ Len(chunks) >= 4

\* C3: when len(text) <= chunk_size the call returns exactly one chunk, the
\* input text itself with nothing trimmed, whatever overlap is.
ShortTextUnchanged ==
    (Len(text) <= chunk_size /\ pc # "call")
        => (pc = "returned" /\ chunks = <<text>>)

ShortTextUnchangedWitness ==
    /\ pc = "returned" /\ Len(text) <= chunk_size /\ Len(text) >= 2
    /\ overlap >= chunk_size
    /\ Head(text) \in Whitespace /\ text[Len(text)] \in Whitespace
    /\ chunks = <<text>>

\* C4 (as claimed): every returned chunk has no leading or trailing
\* whitespace, the single chunk of a short text included.
AllChunksStripped ==
    pc = "returned" => \A i \in DOMAIN chunks : IsStripped(chunks[i])

\* C4 (amended): every chunk appended by the loop (len(text) > chunk_size)
\* has no leading or trailing whitespace; the single chunk of a short text is
\* the input as given, with whatever whitespace it has.
LoopChunksStripped ==
    /\ Len(text) > chunk_size => \A i \in DOMAIN chunks : IsStripped(chunks[i])
    /\ (Len(text) <= chunk_size /\ pc = "returned") => chunks[1] = text

LoopChunksStrippedWitness ==
    /\ pc = "returned" /\ Len(text) > chunk_size /\ Len(chunks) >= 2
    /\ \E i \in DOMAIN windows :
          /\ Slice(text, windows[i][1], windows[i][2]) # chunks[i]
          /\ chunks[i] # <<>>
          /\ TrailWs(Slice(text, windows[i][1], windows[i][2])) > 0
          /\ LeadWs(Slice(text, windows[i][1], windows[i][2])) > 0

\* C5 (as claimed): when the call returns for valid parameters, every
\* character position of the text lies in at least one returned chunk.
EveryPositionInAChunk ==
    (ValidParams /\ Len(text) > chunk_size /\ pc = "returned")
        => \A p \in Positions : \E i \in DOMAIN windows : InChunk(p, i)

\* C5 (amended): when the call returns for valid parameters, every position
\* lies in the window of at least one iteration and every position holding a
\* non-whitespace character lies in at least one returned chunk; only
\* whitespace trimmed at a window's edges can be in no chunk.
EveryPositionInAWindow ==
    (ValidParams /\ Len(text) > chunk_size /\ pc = "returned")
        => \A p \in Positions :
              /\ \E i \in DOMAIN windows : InWindow(p, i)
              /\ text[p + 1] \notin Whitespace
                    => \E i \in DOMAIN windows : InChunk(p, i)

EveryPositionInAWindowWitness ==
    /\ pc = "returned" /\ ValidParams /\ Len(text) > chunk_size
    /\ overlap = 0 /\ Len(chunks) >= 3
    /\ \E p \in Positions :
          /\ text[p + 1] = " "
          /\ \A i \in DOMAIN windows : ~InChunk(p, i)
    /\ \E p \in Positions : \E i \in DOMAIN windows : InChunk(p, i)

\* the start the iteration after iteration i began with, or will begin with
StartAfter(i) == IF i < Len(windows) THEN windows[i + 1][1] ELSE start

\* C20: for 0 <= overlap < chunk_size, every iteration whose end exceeds
\* overlap is followed by a start strictly greater than its own, whichever
\* cut rule chose the end.
StartStrictlyIncreases ==
    ValidParams =>
        \A i \in DOMAIN windows :
            windows[i][2] > overlap => StartAfter(i) > windows[i][1]

\* C23: for len(text) > chunk_size and 0 <= overlap < chunk_size every chunk
\* after the first covers a position of the text that the window of the
\* chunk before it did not cover; the last chunk is never wholly inside the
\* one before it.
EveryChunkCoversNew ==
    (ValidParams /\ Len(text) > chunk_size) =>
        \A i \in 2..Len(windows) :
            \E p \in Positions : InWindow(p, i) /\ ~InWindow(p, i - 1)

----------------------------------------------------------------------------
(* Properties of the cut of one window, checked under CutSpec *)

\* positions after start of the sentence terminators wholly inside [s, e)
TermsIn(t, s, e) ==
    {i \in (s + 1)..(e - 2) : t[i + 1] \in {".", "!", "?"} /\ t[i + 2] = " "}

\* positions after start of the spaces inside [s, e)
SpacesIn(t, s, e) == {i \in (s + 1)..(e - 1) : t[i + 1] = " "}

Last(S) == CHOOSE i \in S : \A j \in S : j <= i

\* C21: a window [start, start + chunk_size) whose right edge is before the
\* end of the text is cut right after the mark of the last '. ', '! ' or
\* '? ' wholly inside it at a position greater than start, whatever spaces
\* follow; without such a terminator at the last space at a position
\* greater than start; without one at start + chunk_size.  A window that
\* reaches the end of the text is not shortened.
CutRulePreference ==
    pc = "cut_done" =>
        LET s == windows[1][1]
            e == s + chunk_size
            end == windows[1][2]
        IN  IF e < Len(text)
            THEN IF TermsIn(text, s, e) # {}
                 THEN end = Last(TermsIn(text, s, e)) + 1
                 ELSE IF SpacesIn(text, s, e) # {}
                      THEN end = Last(SpacesIn(text, s, e))
                      ELSE end = e
            ELSE end = e

\* '! ' after start and a later space inside the window
CutRulePreferenceWitness ==
    /\ pc = "cut_done" /\ start + chunk_size < Len(text)
    /\ \E i \in TermsIn(text, start, start + chunk_size) :
          /\ text[i + 1] = "!" /\ windows[1][2] = i + 1
          /\ \E j \in SpacesIn(text, start, start + chunk_size) : j > i + 1
    /\ text[start + 1] = "a"

----------------------------------------------------------------------------
(* Properties of the index, checked under Spec *)

ValidConfig == 0 <= CHUNK_OVERLAP /\ CHUNK_OVERLAP < CHUNK_SIZE

\* the lists of the current call are complete
ListsBuilt == apc \in {"batches", "done", "raised"}

NumChunks(doc) == Len(DocChunks(doc).chunks)

\* number of chunks of the documents before documents[j]
RECURSIVE Offset(_)
Offset(j) == IF j <= 1 THEN 0 ELSE Offset(j - 1) + NumChunks(documents[j - 1])

\* the record the current call built for the list position k
Built(k) ==
    [id |-> all_ids[k], document |-> all_chunks[k], metadata |-> all_metadatas[k]]

\* a stored record the latest call left behind: its filename was ingested
\* again and its chunk_index is not below the new number of chunks
Stale(r) ==
    \E j \in DOMAIN documents :
        /\ r.metadata.filename = documents[j].filename
        /\ DocChunks(documents[j]).returns
        /\ r.metadata.chunk_index >= NumChunks(documents[j])

\* C6: an ingest with overlap >= chunk_size or overlap < 0 is rejected
\* before any chunk is produced or any batch is sent to the index.
InvalidConfigRejected ==
    ~ValidConfig
        => (all_chunks = <<>> /\ collection = {} /\ apc \in {"idle", "raised"})

\* C7: for every document with filename f whose text chunks into k chunks,
\* add_documents builds exactly k records in chunk order; record i has the
\* id f_chunk_i, the text of chunk i, chunk_index i and total_chunks k.
RecordsPerDocument ==
    ListsBuilt =>
        /\ Len(all_ids) = Offset(Len(documents) + 1)
        /\ Len(all_chunks) = Len(all_ids) /\ Len(all_metadatas) = Len(all_ids)
        /\ \A j \in DOMAIN documents :
              LET f == documents[j].filename
                  ch == DocChunks(documents[j]).chunks
              IN  /\ \A i \in 0..(Len(ch) - 1) :
                        LET k == Offset(j) + i + 1
                        IN  /\ all_ids[k] = f \o "_chunk_" \o ToString(i)
                            /\ all_chunks[k] = ch[i + 1]
                            /\ all_metadatas[k].filename = f
                            /\ all_metadatas[k].chunk_index = i
                            /\ all_metadatas[k].total_chunks = Len(ch)
                  /\ {all_metadatas[k].chunk_index :
                         k \in {n \in DOMAIN all_metadatas :
                                  all_metadatas[n].filename = f}}
                        = 0..(Len(ch) - 1)

RecordsPerDocumentWitness ==
    /\ apc = "done" /\ Len(documents) = 2
    /\ NumChunks(documents[1]) >= 2 /\ NumChunks(documents[2]) >= 3
    /\ \A k \in DOMAIN all_ids : Built(k) \in collection

\* C8: when a stored filename is ingested again without reset with changed
\* content, the record under each id of the new chunks holds the new chunk
\* text and the new metadata afterwards.
ReingestOverwrites ==
    (apc = "done" /\ \E k \in DOMAIN all_ids : all_ids[k] \in Ids(before))
        => \A k \in DOMAIN all_ids : Built(k) \in collection

\* C9: a second add_documents call with the same documents and the same
\* configuration as the call that completed before it, without reset,
\* raises no error and leaves the records and document_count as they were.
IngestIdempotent ==
    repeat =>
        /\ apc \notin {"raised", "hung"}
        /\ apc = "done" =>
              (collection = before /\ document_count = Cardinality(before))

IngestIdempotentWitness ==
    /\ repeat /\ apc = "done" /\ Len(documents) = 2
    /\ Len(all_ids) > batch_size
    /\ collection = before /\ document_count = Len(all_ids)

\* C10: a call of add_documents removes no record: the records stored when
\* it was entered, those of chunk indices the new chunking no longer has
\* included, stay in the collection and in document_count.
StaleChunksRemain ==
    ListsBuilt =>
        /\ \A r \in before : r \in collection
        /\ document_count >= Cardinality(before)

\* ... and a query returns one of them
StaleChunksRemainWitness ==
    /\ apc = "done" /\ results # <<>>
    /\ Stale(results[1]) /\ results[1] \in before
    /\ document_count > Len(all_ids)

\* the records the current call built
BuiltRecords == {Built(k) : k \in DOMAIN all_ids}

\* C11: create_vector_db(documents, reset=True) removes every record before
\* it adds anything, whatever the index held; when it has returned the
\* collection holds exactly the records built from documents and
\* document_count is the total number of their chunks, over any number of
\* batches.
ResetThenExactlyBuilt ==
    (reset_arg /\ failure # "reset") =>
        /\ before = {}
        /\ apc = "done" =>
              /\ collection = BuiltRecords
              /\ document_count = Len(all_ids)
              /\ document_count = Offset(Len(documents) + 1)

ResetThenExactlyBuiltWitness ==
    /\ reset_arg /\ apc = "done" /\ Len(all_ids) > batch_size
    /\ \E r \in held : \A j \in DOMAIN documents :
          r.metadata.filename # documents[j].filename
    /\ \E r \in held : r.id \in Ids(collection) /\ r \notin collection
    /\ collection = BuiltRecords /\ document_count = Len(all_ids)

\* C12: when the index fails in the reset or in the add of a batch, the
\* failure leaves create_vector_db / add_documents there: the call has
\* ended with the failure, the batch loop stands at the batch that failed,
\* no further batch can be submitted, and a failed reset is followed by no
\* add at all.
IndexFailurePropagates ==
    failure # "none" =>
        /\ apc = "failed"
        /\ ~ENABLED AddBatch /\ ~ENABLED AddBatchFails
        /\ failure = "reset" => (all_ids = <<>> /\ batch_i = 0 /\ collection = before)
        /\ failure = "batch" =>
              collection \subseteq before \cup {Built(k) : k \in 1..batch_i}

IndexFailurePropagatesWitness ==
    /\ failure = "batch" /\ apc = "failed"
    /\ batch_i >= batch_size /\ batch_i + batch_size < Len(all_ids)
    /\ \E k \in 1..batch_i : Built(k) \in collection
    /\ \A k \in (batch_i + 1)..Len(all_ids) : all_ids[k] \notin Ids(collection)

\* C24: whatever calls of create_vector_db, with and without reset, aborted
\* by a failing batch or not, came before: the chunk_index values stored for
\* a filename are a range 0..k-1 without a gap, and every stored record has
\* a chunk_index below its own total_chunks and the id
\* <filename>_chunk_<chunk_index>
StoredIndexesDense ==
    \A r \in collection :
        /\ r.metadata.chunk_index < r.metadata.total_chunks
        /\ r.id = r.metadata.filename \o "_chunk_"
                      \o ToString(r.metadata.chunk_index)
        /\ \A j \in 0..r.metadata.chunk_index :
               \E q \in collection : /\ q.metadata.filename = r.metadata.filename
                                     /\ q.metadata.chunk_index = j

\* a call that ingests a filename again with another number of chunks was
\* aborted by a failing batch after it had stored records
StoredIndexesDenseWitness ==
    /\ failure = "batch" /\ apc = "failed"
    /\ held # {} /\ collection # held
    /\ \E r, q \in collection :
           /\ r.metadata.filename = q.metadata.filename
           /\ r.metadata.total_chunks # q.metadata.total_chunks

----------------------------------------------------------------------------
(* Properties of VectorDB.query, checked under QuerySpec *)

\* the text of the record of rank i contains the keyword up to case
HasKeyword(i) ==
    LET d == ranking[i].document
    IN  \E off \in 0..(Len(d) - Len(keyword_filter)) :
            \A j \in DOMAIN keyword_filter :
                Lower(d[off + j]) = Lower(keyword_filter[j])

\* the ranks the returned rows are taken from: the n_results nearest, or
\* with a keyword those of the 3 * n_results nearest that contain it
Eligible ==
    IF keyword_filter = <<>>
    THEN 1..Min2(arg_n_results, Len(ranking))
    ELSE {i \in 1..Min2(3 * arg_n_results, Len(ranking)) : HasKeyword(i)}

\* C13: query returns at most n_results rows in rank order: the n_results
\* nearest without a keyword, and with one the first n_results of the
\* 3 * n_results nearest whose text contains it case-insensitively; when
\* fewer match, exactly the matching ones.
QueryKeepsRankOrder ==
    qpc # "call" =>
        /\ qpc = "returned"
        /\ Len(results) = Min2(arg_n_results, Cardinality(Eligible))
        /\ \A k \in DOMAIN results :
              /\ results[k].rank \in Eligible
              /\ results[k] = ranking[results[k].rank]
              /\ Cardinality({i \in Eligible : i < results[k].rank}) = k - 1

\* fewer matches than asked for although a record beyond the candidates
\* matches, and a candidate skipped between two rows returned
QueryKeepsRankOrderWitness ==
    /\ qpc = "returned" /\ keyword_filter = <<"K", "a">>
    /\ arg_n_results = 2 /\ Len(results) = 1 /\ results[1].rank > 1
    /\ Len(ranking) > 3 * arg_n_results
    /\ ranking[Len(ranking)].document = <<"x", "k", "A">>

\* C14: a query with no matching candidate returns an empty sequence and no
\* error: on an empty collection, with or without a keyword, and for a
\* keyword none of the candidates contains.
NoMatchReturnsEmpty ==
    (qpc # "call" /\ (ranking = <<>> \/ (keyword_filter # <<>> /\ Eligible = {})))
        => (qpc = "returned" /\ results = <<>>)

NoMatchReturnsEmptyWitness ==
    /\ qpc = "returned" /\ results = <<>>
    /\ keyword_filter = <<"z">> /\ Len(ranking) >= arg_n_results

----------------------------------------------------------------------------
(* Properties of the similarity consumers, checked under FilterSpec *)

\* the percentage of the project-wide formula, in hundredths of a percent
Percent(distance) ==
    IF distance >= 2 * Scale THEN 0 ELSE 50 * (2 * Scale - distance)

\* the consumer filtered the rows by the threshold
Filtered == consumer \in {"cli", "table", "web"}

\* the positions in rows of the rows kept, in the order kept
KeptRows == [k \in DOMAIN kept |-> kept[k].row]

Ascending(rws) ==
    \A j, k \in DOMAIN rws : j < k => rws[j].distance <= rws[k].distance

\* C15: the similarity the CLI, the web UI and the inspector compute is
\* max(0, 100 * (1 - distance / 2)): 100 at distance 0, 50 at 1, 0 at 2 and
\* above, always within 0..100 (so no row falls below a threshold of 0) and
\* non-increasing in the distance on [0, 2].
SimilarityInRange ==
    consumer \in {"cli", "table", "web", "inspect"} =>
        /\ \A k \in DOMAIN kept :
              LET d == kept[k].distance
              IN  /\ 0 <= shown[k] /\ shown[k] <= 100 * Scale
                  /\ d = 0 => shown[k] = 100 * Scale
                  /\ d = Scale => shown[k] = 50 * Scale
                  /\ d >= 2 * Scale => shown[k] = 0
                  /\ d <= 2 * Scale => 2 * shown[k] = 100 * (2 * Scale - d)
        /\ \A j, k \in DOMAIN kept :
              (kept[j].distance <= kept[k].distance
                  /\ kept[k].distance <= 2 * Scale) => shown[j] >= shown[k]
        /\ min_similarity = 0 => kept = rows

SimilarityInRangeWitness ==
    /\ consumer = "web" /\ min_similarity = 0 /\ Len(kept) = 3
    /\ kept[1].distance = 250 /\ shown[1] = 0
    /\ kept[2].distance = Scale /\ shown[2] = 50 * Scale
    /\ kept[3].distance = 0 /\ shown[3] = 100 * Scale

ConsumersAgree ==
    consumer \notin {"none", "unused"} =>
        \A k \in DOMAIN kept : shown[k] = Percent(kept[k].distance)

\* C28: on results in ascending distance and for any threshold, a number k
\* typed at the detail prompt is accepted only if the table shows a row of
\* rank k, the panel shows the text and the metadata of that row, and no
\* chunk with a similarity below min_similarity is shown
DetailShowsTableRow ==
    (dpc = "typed" /\ Ascending(rows) /\ panel # <<>>) =>
        /\ choice.int <= Len(kept)
        /\ panel[1] = kept[choice.int]
        /\ similarity_table(panel[1].distance) >= min_similarity

----------------------------------------------------------------------------
(* Properties of the answer path, checked under AnswerSpec *)

Answered == ui \in {"cli", "web"}

\* the slice of the rows the caller handed over
Handed == Prefix(filtered, Len(context_chunks))

\* C18: for a generator of provider anthropic, openai or ollama,
\* generate_answer returns a string and raises nothing when the provider
\* call fails, by an exception or by a status other than 200: the failure
\* comes back as an error string, and the chunks and the metadata handed in
\* are as they were.
ProviderFailureIsAString ==
    Answered =>
        /\ answer.kind \in {"text", "error"}
        /\ llm_outcome # "ok" => (answer.kind = "error" /\ answer.provider = provider)
        /\ llm_outcome = "ok" => answer.kind = "text"
        /\ context_chunks = [k \in DOMAIN Handed |-> Handed[k].chunk]
        /\ metadata = [k \in DOMAIN Handed |-> Handed[k].metadata]

ProviderFailureIsAStringWitness ==
    /\ Answered /\ provider = "ollama" /\ llm_outcome = "status"
    /\ answer.kind = "error" /\ Len(context_chunks) >= 2

\* C19: the k-th chunk handed to generate_answer is labelled [k] in the
\* context with the filename and the 1-based chunk number of the k-th
\* metadata entry, and the source list of the CLI and of the web UI shows
\* that entry under the number k, for every number of kept chunks from 1 to
\* the truncation limit.
SourceMarkersAligned ==
    Answered =>
        /\ Len(context) = Len(context_chunks) /\ Len(sources) = Len(context_chunks)
        /\ Len(context_chunks)
              \in {Min2(Len(filtered), n) :
                      n \in IF ui = "cli" THEN {CliChunks} ELSE WebChunks}
        /\ \A k \in DOMAIN context_chunks :
              /\ context[k].marker = k
              /\ context[k].text = filtered[k].chunk
              /\ context[k].filename = filtered[k].metadata.filename
              /\ context[k].chunk_number = filtered[k].metadata.chunk_index + 1
              /\ sources[k].number = k
              /\ sources[k].filename = filtered[k].metadata.filename
              /\ sources[k].chunk_number = filtered[k].metadata.chunk_index + 1

SourceMarkersAlignedWitness ==
    /\ ui = "cli" /\ Len(filtered) > CliChunks /\ Len(context) = CliChunks
    /\ filtered[1].metadata # filtered[2].metadata
    /\ filtered[CliChunks].metadata # filtered[CliChunks + 1].metadata
    /\ sources[CliChunks].number = CliChunks

----------------------------------------------------------------------------
(* Properties of the CLI session, checked under SessionSpec *)

\* C22: the built-in commands 'stats', 'mode' and 'threshold' are each dealt
\* with by their own branch and never by the generic "Error:" handler of the
\* loop, and 'stats' leaves the threshold, the mode and the index as they
\* were
BuiltinsHandledByOwnBranch ==
    command.name \in {"stats", "mode", "threshold"} =>
        /\ handled = "branch"
        /\ command.name = "stats" => SessionState = entered

\* C26: answer mode is on only with an LLM: no failed or skipped setup and
\* no 'mode' command turns it on without one, and a query takes the answer
\* path only when the mode is on and the LLM is there
AnswerModeNeedsLlm ==
    /\ answer_mode => llm # "None"
    /\ setup \in {"failed", "skipped"} => llm = "None" /\ ~answer_mode
    /\ path = "answer" => answer_mode /\ llm # "None"

\* 'mode answer' was typed after a setup that failed
AnswerModeNeedsLlmWitness ==
    /\ setup = "failed"
    /\ command = [name |-> "mode", arg |-> "answer"]
    /\ ~answer_mode

----------------------------------------------------------------------------
(* Properties of the ids, checked under IdSpec *)

\* the <<filename, chunk_index>> each id of the call was built from
RECURSIVE IdOrigins(_)
IdOrigins(docs) ==
    IF docs = <<>> THEN <<>>
    ELSE [k \in 1..Head(docs).total |-> <<Head(docs).filename, k - 1>>]
             \o IdOrigins(Tail(docs))

\* C25: the id scheme is injective: two different pairs of filename and
\* chunk_index never get the same id, also when a filename contains
\* "_chunk_" and digits, so a call over pairwise distinct filenames submits
\* no id twice
IdsInjective ==
    ipc = "built" =>
        /\ Len(submitted) = Len(IdOrigins(named))
        /\ \A k, l \in DOMAIN submitted :
               submitted[k] = submitted[l] =>
                   IdOrigins(named)[k] = IdOrigins(named)[l]
        /\ Injective(submitted)

\* a call with a filename that ends like an id of another document of the
\* call, which has chunks with a two-digit index
IdsInjectiveWitness ==
    /\ ipc = "built"
    /\ \E k, l \in DOMAIN named :
           /\ named[k].filename = "a.pdf" /\ named[k].total = MaxIdChunks
           /\ named[l].filename = "a.pdf_chunk_1.pdf"

----------------------------------------------------------------------------
(* Properties of the processing script, checked under ScriptSpec *)

\* C27: a run that loads no document, from an empty directory or from one
\* whose every PDF fails the extraction, returns before the database step
\* and leaves the index as it was, with --reset too; the database step, and
\* so a reset, is reached only with at least one document, and a reset run
\* that completes has stored a record of a document it loaded
NoDocumentsNoReset ==
    /\ (ppc # "start" /\ loaded = <<>>) => ppc = "exited"
    /\ ppc = "exited" => calls = 0 /\ collection = at_start
    /\ calls > 0 => loaded # <<>> /\ documents = loaded
    /\ (calls > 0 /\ reset_arg /\ apc = "done") =>
           \E r \in collection :
               \E k \in DOMAIN loaded : r.metadata.filename = loaded[k].filename

\* a run with --reset on an index that holds records, in a directory whose
\* every PDF fails the extraction, has returned
NoDocumentsNoResetWitness ==
    /\ ppc = "exited"
    /\ args_reset
    /\ pdf_files # <<>>
    /\ collection # {}

=============================================================================
